---- MODULE Spec2Model ----
(***************************************************************************)
(* The enclave process of src/enclave_proc/mod.rs: daemonization           *)
(* (create_enclave_process), the event loop (process_event_loop), the      *)
(* termination worker (run_terminate), the signal bridge                   *)
(* (enclave_proc_handle_signals) and the output router                     *)
(* (route_output_to, safe_route_output).                                   *)
(*                                                                         *)
(* Threads interleave at the granularity of the system calls that touch    *)
(* the process-wide descriptor table (dup, dup2) and of the blocking       *)
(* points (waiting for a ready endpoint, the wrapped operation, join).     *)
(* process::exit, reached through ok_or_exit on any thread, stops every    *)
(* thread: every action is guarded by the process being alive.             *)
(***************************************************************************)
EXTENDS Integers, Sequences, FiniteSets, TLC

\* Number of commands the clients send over one execution.
MaxCmds == 3

VARIABLES
    pc,               \* position of the main thread
    sighup_masked,    \* SIGHUP masked on the main thread (create_enclave_process)
    parent,           \* the intermediate (forking) process: "alive" | "exited"
    fds,              \* process-wide targets of STDIN/STDOUT/STDERR
    exit_status,      \* "running" | "ok" (returned 0) | "fail" (process::exit by ok_or_exit)
    registry,         \* endpoints registered with the ConnectionListener
    socket_path,      \* enclave id the rendezvous socket was opened under, <<>> if none
    enclave_manager,  \* enclave_manager.enclave_id; <<>> for EnclaveManager::default()
    terminate_thread, \* Option<JoinHandle>: None or the worker the handle belongs to
    logger_id,        \* the logger's identifier
    ready,            \* commands written to registered endpoints and not yet received
    sent,             \* number of commands the clients have sent
    wrote,            \* the u64 values written back on each client connection
    cur,              \* the Connection and command of the current loop iteration
    mroute,           \* safe_route_output frame of the main thread
    wroute,           \* safe_route_output frame of each termination worker
    wpc,              \* position of each termination worker
    joined,           \* how many times each worker's handle has been joined
    sig,              \* signal bridge: "off" | "armed" | "done"
    runs,             \* number of run_enclaves calls that succeeded
    em_writes,        \* number of assignments to enclave_manager since its creation
    failure           \* which ok_or_exit ended the process, "" if none

vars == <<pc, sighup_masked, parent, fds, exit_status, registry, socket_path,
          enclave_manager, terminate_thread, logger_id, ready, sent, wrote, cur,
          mroute, wroute, wpc, joined, sig, runs, em_writes, failure>>

----------------------------------------------------------------------------
\* Values

Commands == {"Run", "Terminate", "TerminateComplete", "GetEnclaveCID",
             "Describe", "ConnectionListenerStop"}

\* What a client endpoint can deliver: a command, or the loss of the peer
\* before a full command tag was read.
PeerLost == "PeerLost"
Deliveries == Commands \cup {PeerLost}

ConnIds == 1..MaxCmds

None == 0

\* Descriptor targets: the launching terminal, the null device, or the
\* descriptor of the connection the i-th command arrived on.
Tty == <<"tty", 0>>
NullDev == <<"null", 0>>
ConnFd(i) == <<"conn", i>>

\* Endpoints of the listener.
CommEp == <<"client", 0>>
SigEp == <<"signal", 0>>
RendezvousEp == <<"rendezvous", 0>>
ClientEp(i) == <<"client", i>>
PipeEp(w) == <<"pipe", w>>

\* The enclave id run_enclaves reports on its n-th success: "i-enc<n>".
Digits == <<"1", "2", "3", "4", "5", "6", "7", "8", "9">>
EnclaveIdOf(n) == <<"i", "-", "e", "n", "c", Digits[n]>>

IdleFrame == [pc |-> "idle", fd |-> NullDev, output_fd |-> NullDev,
              calls |-> 0, undone |-> 0]

NoCmd == [conn |-> None, cmd |-> "none"]

Alive == exit_status = "running"

----------------------------------------------------------------------------
\* Pure helpers

\* Does pat occur in s at position i (1-based)?
MatchAt(s, pat, i) ==
    /\ i + Len(pat) - 1 <= Len(s)
    /\ \A k \in 1..Len(pat) : s[i + k - 1] = pat[k]

EncSep == <<"-", "e", "n", "c">>
EncPrefix == <<"e", "n", "c", "-">>

\* enclave_id.rsplit("-enc") yields the text after the last occurrence
\* first; the whole string when there is no occurrence.
RsplitFirst(s, pat) ==
    LET hits == {i \in 1..Len(s) : MatchAt(s, pat, i)}
    IN  IF hits = {} THEN s
        ELSE LET last == CHOOSE i \in hits : \A j \in hits : j <= i
             IN  SubSeq(s, last + Len(pat), Len(s))

\* get_logger_id splitting at the first occurrence of "-enc" (split in
\* place of rsplit, the text after the first separator kept).
get_logger_id_AfterFirst(enclave_id) ==
    LET hits == {i \in 1..Len(enclave_id) : MatchAt(enclave_id, EncSep, i)}
    IN  IF hits = {} THEN EncPrefix \o enclave_id
        ELSE LET first == CHOOSE i \in hits : \A j \in hits : i <= j
             IN  EncPrefix \o SubSeq(enclave_id, first + Len(EncSep), Len(enclave_id))

get_logger_id(enclave_id) == EncPrefix \o RsplitFirst(enclave_id, EncSep)

----------------------------------------------------------------------------
Init ==
    /\ pc = "start"
    /\ sighup_masked = FALSE
    /\ parent = "alive"
    /\ fds = [in |-> Tty, out |-> Tty, err |-> Tty]
    /\ exit_status = "running"
    /\ registry = {}
    /\ socket_path = <<>>
    /\ enclave_manager = <<>>
    /\ terminate_thread = None
    /\ logger_id = <<>>
    /\ ready = {}
    /\ sent = 0
    /\ wrote = [i \in ConnIds |-> <<>>]
    /\ cur = NoCmd
    /\ mroute = IdleFrame
    /\ wroute = [w \in ConnIds |-> IdleFrame]
    /\ wpc = [w \in ConnIds |-> "unborn"]
    /\ joined = [w \in ConnIds |-> 0]
    /\ sig = "off"
    /\ runs = 0
    /\ em_writes = 0
    /\ failure = ""

----------------------------------------------------------------------------
\* ok_or_exit on an Err: log the message and end the process (every thread).
Exit(msg) ==
    /\ exit_status' = "fail"
    /\ failure' = msg

----------------------------------------------------------------------------
\* The ConnectionListener, as far as the event loop uses it.

listener_new == {}
handle_new_connection(reg, ep) == reg \cup {ep}
add_stream_to_epoll(reg, ep) == reg \cup {ep}
listener_start(reg) == reg \cup {RendezvousEp}
\* stop(): every registration dropped, the rendezvous socket path removed.
listener_stop == [registry |-> {}, socket_path |-> <<>>]

----------------------------------------------------------------------------
\* The output router.

\* libc::dup(STDOUT_FILENO): a new descriptor with STDOUT's current target.
dup_stdout(f) == f.out
\* libc::dup2(fd, STDOUT_FILENO) and libc::dup2(fd, STDERR_FILENO).
dup2_stdout(f, fd) == [f EXCEPT !.out = fd]
dup2_stderr(f, fd) == [f EXCEPT !.err = fd]

\* route_output_to(fd): the old target of STDOUT is duplicated, then STDOUT
\* and STDERR are pointed at fd.  Yields the descriptor table afterwards
\* and the descriptor returned.
route_output_to(f, fd) ==
    [fds |-> dup2_stderr(dup2_stdout(f, fd), fd), old_fd |-> dup_stdout(f)]

\* A fresh safe_route_output frame routing to connection_fd.
NewFrame(connection_fd) ==
    [pc |-> "route", fd |-> connection_fd, output_fd |-> NullDev,
     calls |-> 0, undone |-> 0]

\* One step of safe_route_output in frame r on descriptor table f: the
\* frame and the table after the step.
\*   "route"    let output_fd = route_output_to(connection_fd)
\*   "func"     func(args) returns; route_output_to(output_fd) up to its
\*              dup2 on STDOUT
\*   "undo_err" route_output_to(output_fd), its dup2 on STDERR
\*   "ret"      the status is handed to the caller
\* func touches nothing another thread reads, so its return is taken
\* together with the system call that follows it.  A thread that runs
\* between the two dup2 calls of the second route_output_to sees, and may
\* change, a table that is half restored.  The wrapped operation's status
\* is inspected only by the caller's ok_or_exit, where the model draws it.
safe_route_output(r, f) ==
    CASE r.pc = "route" ->
           [r |-> [r EXCEPT !.pc = "func",
                            !.output_fd = route_output_to(f, r.fd).old_fd],
            f |-> route_output_to(f, r.fd).fds]
      [] r.pc = "func" ->
           [r |-> [r EXCEPT !.pc = "undo_err", !.calls = @ + 1],
            f |-> dup2_stdout(f, r.output_fd)]
      [] r.pc = "undo_err" ->
           [r |-> [r EXCEPT !.pc = "ret", !.undone = @ + 1],
            f |-> dup2_stderr(f, r.output_fd)]

\* The status safe_route_output hands back: what func returned.
Statuses == {"ok", "fail"}

InRoute(r) == r.pc \notin {"idle", "ret"}

----------------------------------------------------------------------------
\* enclave_process_run and create_enclave_process

InitialLoggerId == EncPrefix \o <<"x", "x", "x", "x", "x", "x", "x", "x", "x", "x", "x", "x">>

\* logger.update_logger_id("enc-xxxxxxxxxxxx"); SignalHandler::new(&[SIGHUP]).mask_all()
MaskSighup ==
    /\ Alive /\ pc = "start"
    /\ logger_id' = InitialLoggerId
    /\ sighup_masked' = TRUE
    /\ pc' = "hide"
    /\ UNCHANGED <<parent, fds, exit_status, registry, socket_path, enclave_manager,
                   terminate_thread, ready, sent, wrote, cur, mroute, wroute, wpc,
                   joined, sig, runs, em_writes, failure>>

\* hide_standard_descriptors(): the three standard descriptors to /dev/null,
\* or the open fails.
hide_standard_descriptors ==
    /\ Alive /\ pc = "hide"
    /\ \/ /\ fds' = [in |-> NullDev, out |-> NullDev, err |-> NullDev]
          /\ pc' = "setsid"
          /\ UNCHANGED <<exit_status, failure>>
       \/ /\ Exit("Failed to open '/dev/null'")
          /\ UNCHANGED <<fds, pc>>
    /\ UNCHANGED <<sighup_masked, parent, registry, socket_path, enclave_manager,
                   terminate_thread, logger_id, ready, sent, wrote, cur, mroute,
                   wroute, wpc, joined, sig, runs, em_writes>>

Setsid ==
    /\ Alive /\ pc = "setsid"
    /\ \/ /\ pc' = "fork"
          /\ UNCHANGED <<exit_status, failure>>
       \/ /\ Exit("setsid() failed.")
          /\ UNCHANGED pc
    /\ UNCHANGED <<sighup_masked, parent, fds, registry, socket_path, enclave_manager,
                   terminate_thread, logger_id, ready, sent, wrote, cur, mroute,
                   wroute, wpc, joined, sig, runs, em_writes>>

\* fork(): the model follows the child; the forking process lives on as
\* `parent` until its process::exit(0).  Err(e) panics.
Fork ==
    /\ Alive /\ pc = "fork"
    /\ \/ /\ pc' = "poll"
          /\ UNCHANGED <<exit_status, failure>>
       \/ /\ Exit("Failed to create child")
          /\ UNCHANGED pc
    /\ UNCHANGED <<sighup_masked, parent, fds, registry, socket_path, enclave_manager,
                   terminate_thread, logger_id, ready, sent, wrote, cur, mroute,
                   wroute, wpc, joined, sig, runs, em_writes>>

\* ForkResult::Parent: process::exit(0) in the forking process.
ParentExit ==
    /\ pc \notin {"start", "hide", "setsid", "fork"}
    /\ parent = "alive"
    /\ parent' = "exited"
    /\ UNCHANGED <<pc, sighup_masked, fds, exit_status, registry, socket_path,
                   enclave_manager, terminate_thread, logger_id, ready, sent, wrote,
                   cur, mroute, wroute, wpc, joined, sig, runs, em_writes, failure>>

\* PollPpid with the wait left after the first look, whatever it saw.
PollPpid_NoWait ==
    /\ Alive /\ pc = "poll"
    /\ pc' = "unmask"
    /\ UNCHANGED <<sighup_masked, parent, fds, exit_status, registry, socket_path,
                   enclave_manager, terminate_thread, logger_id, ready, sent, wrote,
                   cur, mroute, wroute, wpc, joined, sig, runs, em_writes, failure>>

\* The orphan wait: stat.ppid == 1 once the forking process has exited;
\* otherwise sleep 10 ms and look again.
PollPpid ==
    /\ Alive /\ pc = "poll"
    /\ pc' = IF parent = "exited" THEN "unmask" ELSE "poll"
    /\ UNCHANGED <<sighup_masked, parent, fds, exit_status, registry, socket_path,
                   enclave_manager, terminate_thread, logger_id, ready, sent, wrote,
                   cur, mroute, wroute, wpc, joined, sig, runs, em_writes, failure>>

\* signal_handler.unmask_all()
UnmaskSighup ==
    /\ Alive /\ pc = "unmask"
    /\ sighup_masked' = FALSE
    /\ pc' = "setup"
    /\ UNCHANGED <<parent, fds, exit_status, registry, socket_path, enclave_manager,
                   terminate_thread, logger_id, ready, sent, wrote, cur, mroute,
                   wroute, wpc, joined, sig, runs, em_writes, failure>>

----------------------------------------------------------------------------
\* process_event_loop

daemon_vars == <<sighup_masked, parent>>
enclave_vars == <<enclave_manager, logger_id, runs, em_writes>>
listener_vars == <<registry, socket_path>>
worker_vars == <<wroute, wpc>>

\* The loop's construction: the listener, the empty enclave manager, no
\* termination thread, the signal handler and the CLI channel.
EventLoopSetup ==
    /\ Alive /\ pc = "setup"
    /\ enclave_manager' = <<>>
    /\ terminate_thread' = None
    /\ registry' = handle_new_connection(add_stream_to_epoll(listener_new, SigEp), CommEp)
    /\ sig' = "armed"
    /\ pc' = "AwaitingCommand"
    /\ UNCHANGED <<daemon_vars, fds, exit_status, socket_path, logger_id, ready, sent,
                   wrote, cur, mroute, worker_vars, joined, runs, em_writes, failure>>

\* What the next Connection::new can hand to the main thread: a command the
\* worker or the signal bridge wrote, or what a client makes ready on a
\* connection of its own (the next command of the execution).  A client's
\* command has no effect before it is received, so it enters the model
\* when it is received.
Incoming ==
    ready \cup
    (IF sent < MaxCmds
     THEN {[ep |-> ClientEp(sent + 1), conn |-> sent + 1, cmd |-> d] : d \in Deliveries}
     ELSE {})

\* Connection::new blocks until an endpoint is ready; receive_command_type
\* reads the command from it.  These are the guards every handler shares.
Received(m, c) ==
    /\ Alive /\ pc = "AwaitingCommand"
    /\ m \in Incoming
    /\ m.cmd = c
    /\ ready' = ready \ {m}
    /\ sent' = IF m.conn # None THEN sent + 1 ELSE sent

\* receive_command_type fails: ok_or_exit("Failed to receive command.")
ReceiveFailed(m) ==
    /\ Received(m, PeerLost)
    /\ Exit("Failed to receive command.")
    /\ UNCHANGED <<pc, daemon_vars, fds, listener_vars, enclave_vars,
                   terminate_thread, wrote, cur, mroute, worker_vars, joined,
                   sig>>

\* Run, up to the call of safe_route_output: the arguments are read, or
\* reading them fails.
HandleRun(m) ==
    /\ Received(m, "Run")
    /\ cur' = [conn |-> m.conn, cmd |-> "Run"]
    /\ \/ /\ mroute' = NewFrame(ConnFd(m.conn))
          /\ pc' = "Run"
          /\ UNCHANGED <<exit_status, failure>>
       \/ /\ Exit("Failed to get run arguments.")
          /\ UNCHANGED <<pc, mroute>>
    /\ UNCHANGED <<daemon_vars, fds, listener_vars, enclave_vars, terminate_thread,
                   wrote, worker_vars, joined, sig>>

\* A step of the main thread inside safe_route_output (Run or Describe).
MainRoute ==
    /\ Alive /\ pc \in {"Run", "Describe"}
    /\ InRoute(mroute)
    /\ mroute' = safe_route_output(mroute, fds).r
    /\ fds' = safe_route_output(mroute, fds).f
    /\ UNCHANGED <<pc, daemon_vars, exit_status, listener_vars, enclave_vars,
                   terminate_thread, ready, sent, wrote, cur, worker_vars, joined,
                   sig, failure>>

\* RunReturned with a failed run ending the loop by a plain return.
RunReturned_ReturnOnFailure ==
    /\ Alive /\ pc = "Run"
    /\ mroute.pc = "ret"
    /\ mroute' = IdleFrame
    /\ exit_status' = "ok"
    /\ UNCHANGED <<pc, daemon_vars, fds, listener_vars, enclave_vars,
                   terminate_thread, ready, sent, wrote, cur, worker_vars, joined,
                   sig, failure>>

\* RunReturned with the logger identifier derived before the returned
\* enclave manager is recorded (from the handle held until then).
RunReturned_LoggerBeforeRecord ==
    /\ Alive /\ pc = "Run"
    /\ mroute.pc = "ret"
    /\ mroute' = IdleFrame
    /\ \E status \in Statuses :
       IF status = "fail"
       THEN /\ Exit("Failed to run enclave.")
            /\ UNCHANGED <<pc, listener_vars, enclave_vars>>
       ELSE /\ runs' = runs + 1
            /\ logger_id' = get_logger_id(enclave_manager)
            /\ enclave_manager' = EnclaveIdOf(runs + 1)
            /\ em_writes' = em_writes + 1
            /\ \/ /\ registry' = listener_start(registry)
                  /\ socket_path' = EnclaveIdOf(runs + 1)
                  /\ pc' = "AwaitingCommand"
                  /\ UNCHANGED <<exit_status, failure>>
               \/ /\ Exit("Failed to start connection listener.")
                  /\ UNCHANGED <<pc, listener_vars>>
    /\ UNCHANGED <<daemon_vars, fds, terminate_thread, ready, sent, wrote, cur,
                   worker_vars, joined, sig>>

\* Run, after safe_route_output returned: ok_or_exit on its status, the new
\* enclave manager, the logger id, the rendezvous listener.
RunReturned ==
    /\ Alive /\ pc = "Run"
    /\ mroute.pc = "ret"
    /\ mroute' = IdleFrame
    /\ \E status \in Statuses :
       IF status = "fail"
       THEN /\ Exit("Failed to run enclave.")
            /\ UNCHANGED <<pc, listener_vars, enclave_vars>>
       ELSE /\ runs' = runs + 1
            /\ enclave_manager' = EnclaveIdOf(runs + 1)
            /\ em_writes' = em_writes + 1
            /\ logger_id' = get_logger_id(EnclaveIdOf(runs + 1))
            /\ \/ /\ registry' = listener_start(registry)
                  /\ socket_path' = EnclaveIdOf(runs + 1)
                  /\ pc' = "AwaitingCommand"
                  /\ UNCHANGED <<exit_status, failure>>
               \/ /\ Exit("Failed to start connection listener.")
                  /\ UNCHANGED <<pc, listener_vars>>
    /\ UNCHANGED <<daemon_vars, fds, terminate_thread, ready, sent, wrote, cur,
                   worker_vars, joined, sig>>

\* notify_terminate with a handle that is already held kept (the new
\* worker's handle dropped).
notify_terminate_KeepFirst(conn) ==
    /\ registry' = add_stream_to_epoll(registry, PipeEp(conn))
    /\ wpc' = [wpc EXCEPT ![conn] = "routing"]
    /\ wroute' = [wroute EXCEPT ![conn] = NewFrame(ConnFd(conn))]
    /\ terminate_thread' = IF terminate_thread # None THEN terminate_thread ELSE conn

\* notify_terminate: the stream pair, its local end in the listener, the
\* worker thread holding the connection and a clone of the enclave manager.
notify_terminate(conn) ==
    /\ registry' = add_stream_to_epoll(registry, PipeEp(conn))
    /\ wpc' = [wpc EXCEPT ![conn] = "routing"]
    /\ wroute' = [wroute EXCEPT ![conn] = NewFrame(ConnFd(conn))]
    /\ terminate_thread' = conn

\* HandleTerminate with the main thread waiting for the worker it spawned
\* (a join right after the spawn).
HandleTerminate_Blocking(m) ==
    /\ Received(m, "Terminate")
    /\ cur' = [conn |-> m.conn, cmd |-> "Terminate"]
    /\ notify_terminate(m.conn)
    /\ pc' = "joining"
    /\ UNCHANGED <<daemon_vars, fds, exit_status, socket_path, enclave_vars,
                   wrote, mroute, joined, sig, failure>>

\* Terminate: the worker is spawned, its handle kept, and the loop goes on.
HandleTerminate(m) ==
    /\ Received(m, "Terminate")
    /\ cur' = [conn |-> m.conn, cmd |-> "Terminate"]
    /\ notify_terminate(m.conn)
    /\ pc' = "AwaitingCommand"
    /\ UNCHANGED <<daemon_vars, fds, exit_status, socket_path, enclave_vars, wrote, mroute, joined, sig, failure>>

\* Stopped with the call of conn_listener.stop() left out.
Stopped_NoStop ==
    /\ pc' = "Stopped"
    /\ UNCHANGED listener_vars

\* The loop is left (break) and conn_listener.stop() runs.
Stopped ==
    /\ pc' = "Stopped"
    /\ registry' = listener_stop.registry
    /\ socket_path' = listener_stop.socket_path

\* HandleTerminateComplete with the handle never looked at.
HandleTerminateComplete_NoJoin(m) ==
    /\ Received(m, "TerminateComplete")
    /\ cur' = [conn |-> m.conn, cmd |-> "TerminateComplete"]
    /\ pc' = "Stopped"
    /\ registry' = listener_stop.registry
    /\ socket_path' = listener_stop.socket_path
    /\ UNCHANGED <<daemon_vars, fds, exit_status, enclave_vars, terminate_thread,
                   wrote, mroute, worker_vars, joined, sig, failure>>

\* HandleTerminateComplete with a missing handle treated as the failed join
\* is (ok_or_exit on None).
HandleTerminateComplete_FatalOnNone(m) ==
    /\ Received(m, "TerminateComplete")
    /\ cur' = [conn |-> m.conn, cmd |-> "TerminateComplete"]
    /\ IF terminate_thread # None
       THEN /\ pc' = "joining"
            /\ UNCHANGED <<listener_vars, exit_status, failure>>
       ELSE /\ Exit("Failed to retrieve termination thread.")
            /\ UNCHANGED <<pc, listener_vars>>
    /\ UNCHANGED <<daemon_vars, fds, enclave_vars, terminate_thread,
                   wrote, mroute, worker_vars, joined, sig>>

\* TerminateComplete: with a handle the main thread goes to join it, with
\* None it warns and leaves the loop.
HandleTerminateComplete(m) ==
    /\ Received(m, "TerminateComplete")
    /\ cur' = [conn |-> m.conn, cmd |-> "TerminateComplete"]
    /\ IF terminate_thread # None
       THEN /\ pc' = "joining"
            /\ UNCHANGED listener_vars
       ELSE Stopped
    /\ UNCHANGED <<daemon_vars, fds, exit_status, enclave_vars, terminate_thread,
                   wrote, mroute, worker_vars, joined, sig, failure>>

\* handle.join() returns once the worker thread has finished; the handle is
\* consumed by the join; then break and conn_listener.stop().
JoinReturned ==
    /\ Alive /\ pc = "joining"
    /\ wpc[terminate_thread] = "done"
    /\ joined' = [joined EXCEPT ![terminate_thread] = @ + 1]
    /\ terminate_thread' = None
    /\ Stopped
    /\ UNCHANGED <<daemon_vars, fds, exit_status, enclave_vars, ready, sent, wrote,
                   cur, mroute, worker_vars, sig, failure>>

\* EnclaveManager::get_console_resources: an error on an enclave manager
\* that holds no enclave, the enclave's CID otherwise.
get_console_resources(em) == IF em = <<>> THEN "fail" ELSE "ok"

\* HandleGetEnclaveCID with the failed query answered by a default value
\* (unwrap_or_default in place of ok_or_exit).
HandleGetEnclaveCID_DefaultOnEmpty(m) ==
    /\ Received(m, "GetEnclaveCID")
    /\ cur' = [conn |-> m.conn, cmd |-> "GetEnclaveCID"]
    /\ \/ /\ wrote' = [wrote EXCEPT ![m.conn] = Append(@, "cid")]
          /\ UNCHANGED <<exit_status, failure>>
       \/ /\ Exit("Failed to send enclave CID.")
          /\ UNCHANGED wrote
    /\ UNCHANGED <<pc, daemon_vars, fds, listener_vars, enclave_vars,
                   terminate_thread, mroute, worker_vars, joined, sig>>

\* GetEnclaveCID: get_console_resources fails on an enclave manager that
\* holds no enclave; the CID is written back, or the write fails.
HandleGetEnclaveCID(m) ==
    /\ Received(m, "GetEnclaveCID")
    /\ cur' = [conn |-> m.conn, cmd |-> "GetEnclaveCID"]
    /\ IF get_console_resources(enclave_manager) = "fail"
       THEN /\ Exit("Failed to get enclave CID.")
            /\ UNCHANGED wrote
       ELSE \/ /\ wrote' = [wrote EXCEPT ![m.conn] = Append(@, "cid")]
               /\ UNCHANGED <<exit_status, failure>>
            \/ /\ Exit("Failed to send enclave CID.")
               /\ UNCHANGED wrote
    /\ UNCHANGED <<pc, daemon_vars, fds, listener_vars, enclave_vars,
                   terminate_thread, mroute, worker_vars, joined, sig>>

\* HandleDescribe with the confirmation left out.
HandleDescribe_NoConfirm(m) ==
    /\ Received(m, "Describe")
    /\ cur' = [conn |-> m.conn, cmd |-> "Describe"]
    /\ mroute' = NewFrame(ConnFd(m.conn))
    /\ pc' = "Describe"
    /\ UNCHANGED <<daemon_vars, fds, exit_status, listener_vars, enclave_vars,
                   terminate_thread, wrote, worker_vars, joined, sig, failure>>

\* Describe, up to the call of safe_route_output: the confirmation is
\* written first.
HandleDescribe(m) ==
    /\ Received(m, "Describe")
    /\ cur' = [conn |-> m.conn, cmd |-> "Describe"]
    /\ \/ /\ wrote' = [wrote EXCEPT ![m.conn] = Append(@, "confirm")]
          /\ mroute' = NewFrame(ConnFd(m.conn))
          /\ pc' = "Describe"
          /\ UNCHANGED <<exit_status, failure>>
       \/ /\ Exit("Failed to write confirmation.")
          /\ UNCHANGED <<pc, wrote, mroute>>
    /\ UNCHANGED <<daemon_vars, fds, listener_vars, enclave_vars, terminate_thread,
                   worker_vars, joined, sig>>

\* Describe, after safe_route_output returned.
DescribeReturned ==
    /\ Alive /\ pc = "Describe"
    /\ mroute.pc = "ret"
    /\ mroute' = IdleFrame
    /\ \E status \in Statuses :
       IF status = "fail"
       THEN /\ Exit("Failed to describe enclave.")
            /\ UNCHANGED pc
       ELSE /\ pc' = "AwaitingCommand"
            /\ UNCHANGED <<exit_status, failure>>
    /\ UNCHANGED <<daemon_vars, fds, listener_vars, enclave_vars, terminate_thread,
                   ready, sent, wrote, cur, worker_vars, joined, sig>>

\* ConnectionListenerStop => break
HandleConnectionListenerStop(m) ==
    /\ Received(m, "ConnectionListenerStop")
    /\ cur' = [conn |-> m.conn, cmd |-> "ConnectionListenerStop"]
    /\ Stopped
    /\ UNCHANGED <<daemon_vars, fds, exit_status, enclave_vars, terminate_thread,
                   wrote, mroute, worker_vars, joined, sig, failure>>

\* enclave_process_run returns 0 once process_event_loop has returned.
enclave_process_run ==
    /\ Alive /\ pc = "Stopped"
    /\ exit_status' = "ok"
    /\ UNCHANGED <<pc, daemon_vars, fds, listener_vars, enclave_vars,
                   terminate_thread, ready, sent, wrote, cur, mroute, worker_vars,
                   joined, sig, failure>>

----------------------------------------------------------------------------
\* run_terminate, on the worker thread of the Terminate that came on
\* connection w

\* A step of the worker inside safe_route_output(terminate_enclaves).
WorkerRoute(w) ==
    /\ Alive /\ wpc[w] = "routing"
    /\ InRoute(wroute[w])
    /\ wroute' = [wroute EXCEPT ![w] = safe_route_output(wroute[w], fds).r]
    /\ fds' = safe_route_output(wroute[w], fds).f
    /\ UNCHANGED <<pc, daemon_vars, exit_status, listener_vars, enclave_vars,
                   terminate_thread, ready, sent, wrote, cur, mroute, wpc, joined,
                   sig, failure>>

\* send_command_and_close: the command on the stream, then its shutdown.
send_command_and_close(cmd, ep) ==
    ready' = ready \cup {[ep |-> ep, conn |-> None, cmd |-> cmd]}

\* run_terminate with the notification of the main thread left out.
run_terminate_Silent(w) ==
    /\ Alive /\ wpc[w] = "routing"
    /\ wroute[w].pc = "ret"
    /\ wroute' = [wroute EXCEPT ![w] = IdleFrame]
    /\ \E status \in Statuses :
       IF status = "fail"
       THEN /\ Exit("Failed to terminate enclave.")
            /\ UNCHANGED wpc
       ELSE /\ wpc' = [wpc EXCEPT ![w] = "done"]
            /\ UNCHANGED <<exit_status, failure>>
    /\ UNCHANGED <<pc, daemon_vars, fds, listener_vars, enclave_vars, ready,
                   terminate_thread, sent, wrote, cur, mroute, joined, sig>>

\* After safe_route_output: ok_or_exit on its status, then TerminateComplete
\* to the main thread, and the thread ends.
run_terminate(w) ==
    /\ Alive /\ wpc[w] = "routing"
    /\ wroute[w].pc = "ret"
    /\ wroute' = [wroute EXCEPT ![w] = IdleFrame]
    /\ \E status \in Statuses :
       IF status = "fail"
       THEN /\ Exit("Failed to terminate enclave.")
            /\ UNCHANGED <<ready, wpc>>
       ELSE /\ send_command_and_close("TerminateComplete", PipeEp(w))
            /\ wpc' = [wpc EXCEPT ![w] = "done"]
            /\ UNCHANGED <<exit_status, failure>>
    /\ UNCHANGED <<pc, daemon_vars, fds, listener_vars, enclave_vars,
                   terminate_thread, sent, wrote, cur, mroute, joined, sig>>

----------------------------------------------------------------------------
\* The signal bridge

\* enclave_proc_handle_signals with nothing written to the stream.
enclave_proc_handle_signals_Silent ==
    /\ Alive /\ sig = "armed"
    /\ pc \in {"AwaitingCommand", "Run", "Describe", "joining"}
    /\ sig' = "done"
    /\ UNCHANGED <<pc, daemon_vars, fds, exit_status, listener_vars, enclave_vars,
                   terminate_thread, ready, sent, wrote, cur, mroute, worker_vars,
                   joined, failure>>

\* enclave_proc_handle_signals, called by the handler thread with a monitored
\* signal that was delivered while the loop runs: ConnectionListenerStop on
\* the bridge's stream; returning true ends the handler.
enclave_proc_handle_signals ==
    /\ Alive /\ sig = "armed"
    /\ pc \in {"AwaitingCommand", "Run", "Describe", "joining"}
    /\ send_command_and_close("ConnectionListenerStop", SigEp)
    /\ sig' = "done"
    /\ UNCHANGED <<pc, daemon_vars, fds, exit_status, listener_vars, enclave_vars,
                   terminate_thread, sent, wrote, cur, mroute, worker_vars, joined,
                   failure>>

----------------------------------------------------------------------------
\* The match on the command received.
Handle(m) ==
    \/ ReceiveFailed(m) \/ HandleRun(m) \/ HandleTerminate(m)
    \/ HandleTerminateComplete(m) \/ HandleGetEnclaveCID(m)
    \/ HandleDescribe(m) \/ HandleConnectionListenerStop(m)

\* One iteration of the loop begins: a command is received and its match
\* arm entered.
Dispatch == \E m \in Incoming : Handle(m)

\* The steps the main thread takes without a client: everything but the
\* reception of a client's command.
MainProgress ==
    \/ MaskSighup \/ hide_standard_descriptors \/ Setsid \/ Fork \/ PollPpid
    \/ UnmaskSighup \/ EventLoopSetup
    \/ \E m \in ready : Handle(m)
    \/ MainRoute \/ RunReturned \/ DescribeReturned \/ JoinReturned
    \/ enclave_process_run

MainStep ==
    \/ MaskSighup \/ hide_standard_descriptors \/ Setsid \/ Fork \/ PollPpid
    \/ UnmaskSighup \/ EventLoopSetup
    \/ Dispatch
    \/ MainRoute \/ RunReturned \/ DescribeReturned \/ JoinReturned
    \/ enclave_process_run

WorkerStep(w) == WorkerRoute(w) \/ run_terminate(w)

Next ==
    \/ MainStep
    \/ \E w \in ConnIds : WorkerStep(w)
    \/ ParentExit
    \/ enclave_proc_handle_signals

Spec == Init /\ [][Next]_vars

\* Scheduling: every thread that can take a step eventually takes one, a
\* command a thread wrote is eventually received unless the loop ends, and
\* the forking process eventually exits.  Clients and signals are free to
\* send or not.
FairSpec ==
    /\ Spec
    /\ WF_vars(MainProgress)
    /\ \A w \in ConnIds : WF_vars(WorkerStep(w))
    /\ WF_vars(ParentExit)

TypeOK ==
    /\ exit_status \in {"running", "ok", "fail"}
    /\ terminate_thread \in {None} \cup ConnIds
    /\ sent \in 0..MaxCmds
    /\ ready \subseteq {[ep |-> PipeEp(w), conn |-> None, cmd |-> "TerminateComplete"] : w \in ConnIds}
                       \cup {[ep |-> SigEp, conn |-> None, cmd |-> "ConnectionListenerStop"]}
    /\ sig \in {"off", "armed", "done"}
    /\ \A w \in ConnIds : wpc[w] \in {"unborn", "routing", "done"}

----------------------------------------------------------------------------
\* Vocabulary of the properties

\* The workers spawned so far, and those among them never joined.
Spawned == {w \in ConnIds : wpc[w] # "unborn"}
Unjoined == {w \in Spawned : joined[w] = 0}

\* The worker whose handle the main thread holds has not finished.
TicketRunning == terminate_thread # None /\ wpc[terminate_thread] = "routing"

\* What a client can make ready next.
ClientMsg(c) == [ep |-> ClientEp(sent + 1), conn |-> sent + 1, cmd |-> c]

\* The event loop has been entered.
InLoop == pc \in {"AwaitingCommand", "Run", "Describe", "joining", "Stopped"}

\* No thread is inside safe_route_output.
NoRouting == mroute.pc = "idle" /\ \A w \in ConnIds : wroute[w].pc = "idle"

TerminateCompleteOf(w) == [ep |-> PipeEp(w), conn |-> None, cmd |-> "TerminateComplete"]
SignalStop == [ep |-> SigEp, conn |-> None, cmd |-> "ConnectionListenerStop"]

----------------------------------------------------------------------------
\* C1: handling Terminate leaves the main thread waiting for the next
\* command, not for the worker: whenever the last command handled is
\* Terminate the main thread is in AwaitingCommand, and whenever it is in
\* AwaitingCommand while the worker it holds the handle of is still running,
\* a Describe and a GetEnclaveCID a client makes ready can be received at
\* once (the worker's TerminateComplete has not been sent by then).
C1_TerminateDoesNotBlock ==
    /\ (InLoop /\ cur.cmd = "Terminate") => pc = "AwaitingCommand"
    /\ (Alive /\ pc = "AwaitingCommand" /\ TicketRunning /\ sent < MaxCmds) =>
          /\ ENABLED HandleDescribe(ClientMsg("Describe"))
          /\ ENABLED HandleGetEnclaveCID(ClientMsg("GetEnclaveCID"))
          /\ TerminateCompleteOf(terminate_thread) \notin ready

\* C1 witness: a Describe has been served from start to end after a Run and
\* a Terminate, and the worker of that Terminate is still running.
C1_Witness ==
    /\ Alive /\ pc = "AwaitingCommand"
    /\ cur.cmd = "Describe"
    /\ enclave_manager # <<>>
    /\ TicketRunning
    /\ wroute[terminate_thread].pc = "func"
    /\ TerminateCompleteOf(terminate_thread) \notin ready

----------------------------------------------------------------------------
\* The ok_or_exit messages of run_terminate and of the event loop.
TerminateFailed == failure = "Failed to terminate enclave."

\* Worker w has sent its TerminateComplete, has been joined once and the main
\* thread has reached Stopped.
Completed(w) == wpc[w] = "done" /\ joined[w] = 1 /\ pc = "Stopped"

\* C2 as stated: under fair scheduling, once a Terminate has been received
\* (its worker exists), either the terminate operation fails or the worker
\* sends TerminateComplete, is joined, and the main thread reaches Stopped.
C2_Original ==
    \A w \in ConnIds :
       (wpc[w] # "unborn") ~> (TerminateFailed \/ Completed(w))

\* The loop was left on a ConnectionListenerStop.
StoppedByListenerStop == pc = "Stopped" /\ cur.cmd = "ConnectionListenerStop"

\* A Terminate received after the one of worker w has replaced its handle.
Replaced(w) == \E v \in Spawned : v > w

\* C2 amended: under fair scheduling, once a Terminate has been received,
\* the worker sends TerminateComplete, is joined once, and the main thread
\* reaches Stopped, unless the process ends on a fatal failure (of the
\* terminate operation or of another command), the loop is left on a
\* ConnectionListenerStop, or a later Terminate replaces the handle.
C2_Amended ==
    \A w \in ConnIds :
       (wpc[w] # "unborn") ~>
          (exit_status = "fail" \/ Completed(w) \/ StoppedByListenerStop \/ Replaced(w))

\* C2 witness: a worker has sent TerminateComplete, the main thread received
\* it from the worker's stream, joined the worker and stopped.
C2_Witness ==
    \E w \in ConnIds :
       /\ Completed(w)
       /\ cur = [conn |-> None, cmd |-> "TerminateComplete"]
       /\ TerminateCompleteOf(w) \notin ready
       /\ Spawned = {w}

----------------------------------------------------------------------------
\* C3 as stated: in the loop, whenever no thread is inside a routed
\* operation, STDOUT and STDERR target the null device.
C3_Original ==
    (Alive /\ InLoop /\ NoRouting) => (fds.out = NullDev /\ fds.err = NullDev)

\* The step on which safe_route_output returns, and what C4 expects of the
\* frame and the descriptor table after it.
Returns(r, rn) == r.pc = "undo_err" /\ rn.pc = "ret"
Restored(rn, f) ==
    /\ f.out = rn.output_fd /\ f.err = rn.output_fd
    /\ rn.calls = 1 /\ rn.undone = 1

\* C4 as stated: the step on which a thread returns from safe_route_output
\* leaves STDOUT and STDERR on the target STDOUT had when the call began
\* (the descriptor the first route_output_to duplicated), with the wrapped
\* operation called once and the redirection undone once.
C4_Original ==
    [][/\ Returns(mroute, mroute') => Restored(mroute', fds')
       /\ \A w \in ConnIds : Returns(wroute[w], wroute'[w]) => Restored(wroute'[w], fds')]_vars

----------------------------------------------------------------------------
\* C5: when the loop has been left on a TerminateComplete and exactly one
\* Terminate was received before it, the worker of that Terminate has been
\* joined exactly once, the main thread holds no handle and no worker is
\* left unjoined; and no worker is ever joined twice.
C5_JoinedOnce ==
    /\ \A w \in ConnIds : joined[w] <= 1
    /\ (pc = "Stopped" /\ cur.cmd = "TerminateComplete" /\ Cardinality(Spawned) = 1) =>
          /\ \A w \in Spawned : joined[w] = 1 /\ wpc[w] = "done"
          /\ terminate_thread = None
          /\ Unjoined = {}

\* C5 witness: one Terminate, then a TerminateComplete, and its worker joined.
C5_Witness ==
    /\ pc = "Stopped" /\ cur.cmd = "TerminateComplete"
    /\ Cardinality(Spawned) = 1
    /\ \A w \in Spawned : joined[w] = 1
    /\ terminate_thread = None

\* C6 as stated: at most one spawned worker has not been joined.
C6_Original == Cardinality(Unjoined) <= 1

----------------------------------------------------------------------------
FatalMessages ==
    {"Failed to receive command.", "Failed to get run arguments.",
     "Failed to run enclave.", "Failed to start connection listener.",
     "Failed to get enclave CID.", "Failed to send enclave CID.",
     "Failed to write confirmation.", "Failed to describe enclave.",
     "Failed to terminate enclave."}

----------------------------------------------------------------------------
\* C8 as stated: under fair scheduling, once a signal was delivered in the
\* loop (the bridge has written ConnectionListenerStop), the main thread
\* reaches Stopped.
C8_Original == (sig = "done") ~> (pc = "Stopped")

\* C8 amended: a signal delivered in the loop makes the bridge write
\* ConnectionListenerStop to its stream, and under fair scheduling the main
\* thread then reaches Stopped unless a fatal failure ends the process first.
C8_Amended ==
    /\ [][(sig = "armed" /\ sig' = "done") => SignalStop \in ready']_vars
    /\ (sig = "done") ~> (pc = "Stopped" \/ exit_status = "fail")

\* C8 witness: the loop was left on the bridge's ConnectionListenerStop and
\* no Terminate was ever received.
C8_Witness ==
    /\ pc = "Stopped"
    /\ cur = [conn |-> None, cmd |-> "ConnectionListenerStop"]
    /\ sig = "done" /\ SignalStop \notin ready
    /\ Spawned = {}
    /\ runs = 1

----------------------------------------------------------------------------
\* C9: whenever the main thread is in Stopped, no command can be received
\* any more, and the listener holds no endpoint and no rendezvous socket.
C9_StoppedTornDown ==
    pc = "Stopped" =>
       /\ ~ENABLED Dispatch
       /\ registry = {}
       /\ socket_path = <<>>

\* C9 witness: Stopped after a Run had opened the rendezvous socket, with a
\* command of a worker still unreceived and a client able to send more.
C9_Witness ==
    /\ pc = "Stopped" /\ Alive
    /\ runs >= 1
    /\ ready # {}
    /\ sent < MaxCmds

\* C10 as stated: the enclave manager is assigned at most once after its
\* creation.
C10_Original == em_writes <= 1

----------------------------------------------------------------------------
\* The listener could not be started after a Run that succeeded.
StartFailed == failure = "Failed to start connection listener."

\* C11: a Run that succeeded has recorded the returned enclave identifier,
\* set the logger identifier derived from it, and only then started the
\* rendezvous listener under that identifier, and the main thread is back in
\* AwaitingCommand.  When the start fails the identifier and the logger
\* identifier are already in place and the socket is not opened under the new
\* identifier.  The rendezvous listener is never started while the enclave
\* handle is empty.
C11_RunOrder ==
    /\ (enclave_manager # <<>>) =>
          /\ enclave_manager = EnclaveIdOf(runs)
          /\ logger_id = get_logger_id(enclave_manager)
    /\ (socket_path # <<>> \/ RendezvousEp \in registry) => enclave_manager # <<>>
    /\ (socket_path # <<>>) <=> (RendezvousEp \in registry)
    /\ (runs >= 1 /\ ~StartFailed /\ pc # "Stopped") =>
          /\ socket_path = enclave_manager
          /\ RendezvousEp \in registry
    /\ StartFailed =>
          /\ runs >= 1
          /\ enclave_manager = EnclaveIdOf(runs)
          /\ logger_id = get_logger_id(EnclaveIdOf(runs))
          /\ socket_path # enclave_manager
    /\ (Alive /\ InLoop /\ cur.cmd = "Run" /\ mroute.pc = "idle") =>
          /\ pc = "AwaitingCommand"
          /\ runs >= 1

\* C11 witness: the second Run of an execution has succeeded and the main
\* thread waits for the next command.
C11_Witness ==
    /\ Alive /\ pc = "AwaitingCommand"
    /\ cur.cmd = "Run" /\ mroute.pc = "idle"
    /\ runs = 2
    /\ enclave_manager = <<"i", "-", "e", "n", "c", "2">>
    /\ logger_id = <<"e", "n", "c", "-", "2">>
    /\ socket_path = enclave_manager
    /\ RendezvousEp \in registry

----------------------------------------------------------------------------
\* The step on which the main thread takes a client's connection from the
\* listener and dispatches no command from it: the peer was lost while the
\* command was read.
PeerLostAtRead ==
    /\ Alive /\ pc = "AwaitingCommand"
    /\ sent' = sent + 1
    /\ cur' = cur

\* C12 as stated: the loss of a peer while its command is read leaves the
\* process running and the main thread in AwaitingCommand, with the listener
\* and the enclave untouched.
C12_Original ==
    [][PeerLostAtRead =>
          /\ exit_status' = "running"
          /\ pc' = "AwaitingCommand"
          /\ UNCHANGED <<listener_vars, enclave_manager, terminate_thread>>]_vars

----------------------------------------------------------------------------
\* The positions of create_enclave_process, in program order, followed by
\* the construction of the event loop.
DaemonSteps == <<"start", "hide", "setsid", "fork", "poll", "unmask", "setup">>
DaemonIndex(p) == CHOOSE i \in 1..Len(DaemonSteps) : DaemonSteps[i] = p
BeforeLoop == \E i \in 1..Len(DaemonSteps) : DaemonSteps[i] = pc

\* C13: the daemonization steps are taken in the order mask SIGHUP, standard
\* descriptors to the null device, setsid, fork, exit of the forking process,
\* parent pid observed; a look at the parent pid that comes before that exit
\* only repeats the wait.  SIGHUP is masked from the first step until the
\* child has seen its parent pid equal to 1, the mask is restored and the
\* event loop built (listener, streams, signal bridge) only after that, and
\* the forking process exits only after the fork.
C13_DaemonOrder ==
    /\ [](pc \in {"hide", "setsid", "fork", "poll", "unmask"} => sighup_masked)
    /\ [](pc \in {"setsid", "fork", "poll", "unmask", "setup"} =>
             fds = [in |-> NullDev, out |-> NullDev, err |-> NullDev])
    /\ [](pc \in {"start", "hide", "setsid", "fork"} => parent = "alive")
    /\ []((pc \in {"unmask", "setup"} \/ InLoop) => parent = "exited")
    /\ []((pc = "setup" \/ InLoop) => ~sighup_masked)
    /\ [](BeforeLoop =>
             /\ registry = {} /\ socket_path = <<>> /\ sig = "off"
             /\ sent = 0 /\ ready = {} /\ Spawned = {})
    /\ [][(BeforeLoop /\ pc' # pc) =>
             /\ DaemonIndex(pc) < Len(DaemonSteps) =>
                   pc' = DaemonSteps[DaemonIndex(pc) + 1]
             /\ pc = "setup" => pc' = "AwaitingCommand"
             /\ pc = "poll" => parent = "exited"]_vars
    /\ [][(sighup_masked /\ ~sighup_masked') => (pc = "unmask" /\ parent = "exited")]_vars

\* C13 witness: the child waited while the forking process was alive, saw it
\* gone, restored the mask and built the event loop.
C13_Witness ==
    /\ Alive /\ pc = "AwaitingCommand"
    /\ parent = "exited"
    /\ ~sighup_masked
    /\ fds.in = NullDev
    /\ CommEp \in registry /\ SigEp \in registry
    /\ sig = "armed"

----------------------------------------------------------------------------
\* get_logger_id on its own: the enclave identifiers it is applied to are
\* the texts made of at most MaxTokens pieces, the separator among them.

\* Number of pieces an enclave identifier is made of.
MaxTokens == 4

IdTokens == {<<"-", "e", "n", "c">>, <<"i">>, <<"-">>, <<"e", "n">>, <<"c">>, <<"7">>}

RECURSIVE Concat(_)
Concat(ts) == IF ts = <<>> THEN <<>> ELSE Head(ts) \o Concat(Tail(ts))

EnclaveIds ==
    {Concat(ts) : ts \in UNION {[1..n -> IdTokens] : n \in 0..MaxTokens}}

\* An enclave manager holding an arbitrary identifier, before line 187.
LoggerIdInit ==
    /\ pc = "get_logger_id"
    /\ enclave_manager \in EnclaveIds
    /\ logger_id = InitialLoggerId
    /\ sighup_masked = FALSE
    /\ parent = "exited"
    /\ fds = [in |-> NullDev, out |-> NullDev, err |-> NullDev]
    /\ exit_status = "running"
    /\ registry = {}
    /\ socket_path = <<>>
    /\ terminate_thread = None
    /\ ready = {}
    /\ sent = 0
    /\ wrote = [i \in ConnIds |-> <<>>]
    /\ cur = NoCmd
    /\ mroute = IdleFrame
    /\ wroute = [w \in ConnIds |-> IdleFrame]
    /\ wpc = [w \in ConnIds |-> "unborn"]
    /\ joined = [w \in ConnIds |-> 0]
    /\ sig = "off"
    /\ runs = 0
    /\ em_writes = 0
    /\ failure = ""

\* logger.update_logger_id(&get_logger_id(&enclave_manager.enclave_id))
UpdateLoggerId ==
    /\ pc = "get_logger_id"
    /\ logger_id' = get_logger_id(enclave_manager)
    /\ pc' = "logger_id"
    /\ UNCHANGED <<sighup_masked, parent, fds, exit_status, registry, socket_path,
                   enclave_manager, terminate_thread, ready, sent, wrote, cur,
                   mroute, wroute, wpc, joined, sig, runs, em_writes, failure>>

LoggerIdSpec == LoggerIdInit /\ [][UpdateLoggerId]_vars

\* pat occurs in s.
Contains(s, pat) == \E i \in 1..Len(s) : MatchAt(s, pat, i)

\* C14: for every enclave identifier that contains "-enc", the identifier
\* get_logger_id returns is "enc-" followed by the text after the last
\* occurrence of "-enc": the identifier is some head, "-enc" and a tail with
\* no occurrence of "-enc" beginning after that one, and the result is
\* "enc-" and that tail.  "...-enc1234" gives "enc-1234" and "i-abc-enc777"
\* gives "enc-777".
C14_LoggerIdOfLastEnc ==
    /\ (pc = "logger_id" /\ Contains(enclave_manager, EncSep)) =>
          \E k \in 0..(Len(enclave_manager) - Len(EncSep)) :
             LET head == SubSeq(enclave_manager, 1, k)
                 tail == SubSeq(enclave_manager, k + Len(EncSep) + 1, Len(enclave_manager))
             IN  /\ enclave_manager = head \o EncSep \o tail
                 /\ \A j \in (k + 2)..Len(enclave_manager) :
                       ~MatchAt(enclave_manager, EncSep, j)
                 /\ logger_id = <<"e", "n", "c", "-">> \o tail
    /\ get_logger_id(<<"i", "-", "a", "b", "c", "-", "e", "n", "c", "7", "7", "7">>)
          = <<"e", "n", "c", "-", "7", "7", "7">>
    /\ get_logger_id(<<"i", "-", "0", "-", "e", "n", "c", "1", "2", "3", "4">>)
          = <<"e", "n", "c", "-", "1", "2", "3", "4">>

\* C14 witness: an identifier with two occurrences of "-enc" has been given
\* the logger identifier of the text after the second.
C14_Witness ==
    /\ pc = "logger_id"
    /\ enclave_manager = <<"i", "-", "e", "n", "c", "-", "e", "n", "c", "7">>
    /\ logger_id = <<"e", "n", "c", "-", "7">>

----------------------------------------------------------------------------
\* Worker w has been spawned and terminate_enclaves has not returned on it.
TerminateInProgress(w) ==
    wpc[w] = "routing" /\ wroute[w].pc \in {"route", "func"}

\* C15 as stated, on the orderly end of the process: when enclave_process_run
\* has returned 0, no worker is left with its terminate operation unfinished.
C15_Original ==
    exit_status = "ok" => \A w \in ConnIds : ~TerminateInProgress(w)

----------------------------------------------------------------------------
\* C16 as stated: whenever the main thread joins a worker, that worker has
\* returned from its routed terminate operation, restored the output target
\* and sent its TerminateComplete: the join has nothing to wait for.
C16_Original ==
    (Alive /\ pc = "joining") =>
       /\ wpc[terminate_thread] = "done"
       /\ wroute[terminate_thread].pc = "idle"
       /\ ENABLED JoinReturned

----------------------------------------------------------------------------
\* C17: while the main thread waits for a command, it holds no handle
\* exactly when no Terminate was dispatched; a TerminateComplete can then be
\* received, and once it was, the main thread is in Stopped, nothing was
\* joined, no handle is held and the process has not failed.
C17_NoTicketStops ==
    /\ (Alive /\ pc = "AwaitingCommand") => (terminate_thread = None <=> Spawned = {})
    /\ (Alive /\ pc = "AwaitingCommand" /\ terminate_thread = None /\ sent < MaxCmds) =>
          ENABLED HandleTerminateComplete(ClientMsg("TerminateComplete"))
    /\ (cur.cmd = "TerminateComplete" /\ Spawned = {}) =>
          /\ pc = "Stopped"
          /\ exit_status # "fail" /\ failure = ""
          /\ \A w \in ConnIds : joined[w] = 0
          /\ terminate_thread = None

\* C17 witness: a client's TerminateComplete was received after a Run and
\* with no Terminate before it, and the loop was left.
C17_Witness ==
    /\ Alive /\ pc = "Stopped"
    /\ cur.cmd = "TerminateComplete" /\ cur.conn # None
    /\ Spawned = {}
    /\ runs = 1
    /\ terminate_thread = None

----------------------------------------------------------------------------
\* The confirmation is all that was written on the connection of the
\* command being served.
Confirmed == cur.conn # None /\ wrote[cur.conn] = <<"confirm">>

\* C18: as long as a Describe is being served the confirmation has been
\* written on its connection: it is there when the main thread is about to
\* route the output (nothing routed, describe_enclaves not called), and
\* whenever the output is routed to that connection or describe_enclaves has
\* been called.  When the Describe has been served the main thread is in
\* AwaitingCommand, and no step of serving it changes the handle of the
\* termination thread.
C18_ConfirmFirst ==
    /\ [](pc = "Describe" => (cur.cmd = "Describe" /\ Confirmed))
    /\ []((cur.cmd = "Describe" /\
           (fds.out = ConnFd(cur.conn) \/ fds.err = ConnFd(cur.conn) \/ mroute.calls > 0))
             => Confirmed)
    /\ []((Alive /\ InLoop /\ cur.cmd = "Describe" /\ mroute.pc = "idle") =>
             (pc = "AwaitingCommand" /\ Confirmed))
    /\ [][(pc' = "Describe" /\ pc # "Describe") =>
             /\ mroute'.pc = "route" /\ mroute'.calls = 0
             /\ fds' = fds
             /\ wrote'[cur'.conn] = <<"confirm">>]_vars
    /\ [][(pc = "Describe" \/ pc' = "Describe") =>
             UNCHANGED <<terminate_thread, joined, enclave_manager>>]_vars

\* C18 witness: a Describe has been served while a termination worker was
\* running, and the main thread waits for the next command with the handle
\* of that worker.
C18_Witness ==
    /\ Alive /\ pc = "AwaitingCommand"
    /\ cur.cmd = "Describe" /\ mroute.pc = "idle"
    /\ Confirmed
    /\ terminate_thread # None
    /\ wpc[terminate_thread] = "routing"

----------------------------------------------------------------------------
\* The ok_or_exit messages of the GetEnclaveCID arm.
CidQueryFailed == failure = "Failed to get enclave CID."
CidWriteFailed == failure = "Failed to send enclave CID."

\* C19: a GetEnclaveCID received while the enclave manager holds no enclave
\* ends the process on "Failed to get enclave CID." with nothing written on
\* its connection.  Received on a valid handle, it leaves exactly one value
\* on its connection and the main thread in AwaitingCommand, unless that one
\* write fails, which ends the process with nothing written.  No connection
\* ever carries more than one value, and the step that serves the command
\* changes neither the enclave manager nor the handle of the termination
\* thread.
C19_CidOrFatal ==
    /\ [](\A c \in ConnIds : Len(wrote[c]) <= 1)
    /\ [](CidQueryFailed => (cur.cmd = "GetEnclaveCID" /\ enclave_manager = <<>>))
    /\ []((cur.cmd = "GetEnclaveCID" /\ enclave_manager = <<>>) =>
             /\ exit_status = "fail" /\ CidQueryFailed
             /\ wrote[cur.conn] = <<>>)
    /\ []((cur.cmd = "GetEnclaveCID" /\ enclave_manager # <<>>) =>
             /\ pc = "AwaitingCommand"
             /\ ~CidQueryFailed
             /\ IF CidWriteFailed
                THEN exit_status = "fail" /\ wrote[cur.conn] = <<>>
                ELSE wrote[cur.conn] = <<"cid">>)
    /\ [][(cur'.cmd = "GetEnclaveCID" /\ cur' # cur) =>
             UNCHANGED <<enclave_manager, terminate_thread, joined, pc, fds, registry>>]_vars

\* C19 witness: a GetEnclaveCID has been answered after a Run, with a
\* termination worker unjoined, and the main thread waits for the next
\* command.
C19_Witness ==
    /\ Alive /\ pc = "AwaitingCommand"
    /\ cur.cmd = "GetEnclaveCID"
    /\ enclave_manager # <<>>
    /\ wrote[cur.conn] = <<"cid">>
    /\ terminate_thread # None

\* C19 witness of the fatal case: a GetEnclaveCID before any Run.
C19_WitnessEmpty ==
    /\ cur.cmd = "GetEnclaveCID" /\ enclave_manager = <<>>
    /\ exit_status = "fail" /\ wrote[cur.conn] = <<>>

----------------------------------------------------------------------------
\* The worker of the most recent Terminate (connections are numbered in the
\* order their commands are received).
LatestWorker == CHOOSE w \in Spawned : \A v \in Spawned : v <= w

\* C20: every Terminate spawns a worker of its own and leaves its handle in
\* terminate_thread, also when an earlier worker is still running; the
\* handle held, the worker the main thread is joining and the worker that
\* was joined are always those of the most recent Terminate, and a worker of
\* an earlier Terminate is never joined.
C20_LatestTicket ==
    /\ (cur.cmd = "Terminate") =>
          /\ cur.conn \in Spawned
          /\ terminate_thread = cur.conn
          /\ cur.conn = LatestWorker
    /\ (terminate_thread # None) =>
          /\ Spawned # {}
          /\ terminate_thread = LatestWorker
    /\ \A w \in Spawned :
          /\ joined[w] >= 1 => w = LatestWorker
          /\ w # LatestWorker => joined[w] = 0
    /\ Cardinality(Spawned) <= Cardinality({c \in ConnIds : c <= sent})

\* C20 witness: a second Terminate came while the worker of the first was
\* running; the second worker was joined on a TerminateComplete and the loop
\* left, with the first worker still inside its terminate operation.
C20_Witness ==
    /\ pc = "Stopped" /\ cur.cmd = "TerminateComplete"
    /\ Spawned = {1, 2}
    /\ joined[2] = 1 /\ joined[1] = 0
    /\ wpc[1] = "routing" /\ wroute[1].pc = "func"
    /\ terminate_thread = None

====
